---- MODULE Spec2Model ----
(***************************************************************************)
(* Agent execution / session / delegation / governance-approval core of    *)
(* claude_agent_sdk: AgentSession (session.py), SubagentRegistry           *)
(* (subagents.py), BaseAgent.reason / _execute_subagent / autonomous_loop  *)
(* (base.py) and YarnnnClient.wait_for_approval (integrations/yarnnn).     *)
(*                                                                         *)
(* Python Optional values are modelled as sequences of length 0 or 1:      *)
(* None is <<>> and a present value x is <<x>>.                            *)
(***************************************************************************)
EXTENDS Integers, Sequences, FiniteSets, TLC

\* ------------------------------------------------------------------------
\* Bounds of the model
\* ------------------------------------------------------------------------
MaxTime == 2
MaxErrors == 2
MaxCalls == 3
MaxTimeout == 10
MaxPollInterval == 2
MaxPolls == 10
MaxHooks == 2
MaxTasks == 2
MaxRuns == 2
MaxIterations == 2
MaxFetches == 3
MaxRegistrations == 3
MaxConfidence == 10
MaxExecutes == 3

\* ------------------------------------------------------------------------
\* Optional values
\* ------------------------------------------------------------------------
None == <<>>

Some(x) == <<x>>

IsNone(o) == o = <<>>

Range(s) == {s[k] : k \in 1..Len(s)}

\* ------------------------------------------------------------------------
\* Input universes
\* ------------------------------------------------------------------------
ProposalIds == {"prop_1", "prop_2"}

Exceptions ==
    {[type |-> "ValueError", msg |-> "Test error"],
     [type |-> "RuntimeError", msg |-> "API Error"]}

Contexts == {None, Some("testing")}

VARIABLES
    current_session,  \* BaseAgent.current_session: None or Some(AgentSession)
    now,              \* datetime.utcnow(), a non-decreasing clock
    next_uuid,        \* source of fresh session ids (uuid4)
    proposalCalls,    \* history: the ids passed to add_proposal, in call order
    \* YarnnnClient.wait_for_approval
    wpc,              \* position of the call: idle, polling, sleeping, done
    timeout,          \* argument timeout
    poll_interval,    \* argument poll_interval
    elapsed,          \* local variable elapsed
    polled,           \* history: generic status of every proposal polled
    wresult,          \* outcome: none, true, false, timeout, error
    \* SubagentRegistry and BaseAgent.reason
    subagents,        \* SubagentRegistry.subagents, in dict insertion order
    delegation_hooks, \* SubagentRegistry.delegation_hooks
    dpc,              \* position of the delegate()/reason() call
    dcall,            \* arguments of the call in progress or last made
    reasonCalls,      \* history: requests sent to the reasoning provider
    hookLog,          \* history: hook invocations of the current call
    providerOutcome,  \* history: what the provider call returned or raised
    dresult,          \* what the call returned or raised
    \* BaseAgent.autonomous_loop
    agent_kind,       \* the BaseAgent subclass, which fixes execute()
    lpc,              \* position of the autonomous_loop call
    tasks,            \* argument tasks
    idx,              \* number of loop iterations finished
    results,          \* local variable results
    execLog,          \* history: per execute() call, the task and outcome
    runs,             \* history: autonomous_loop calls made on this agent
    \* BaseAgent.run_continuous
    task_provider,    \* self.tasks: None or the TaskProvider
    cpc,              \* position of the run_continuous call
    max_iterations,   \* argument max_iterations (None: no limit)
    check_interval,   \* argument check_interval
    iteration,        \* local variable iteration
    pending,          \* local variable pending, the tasks of the last fetch
    pidx,             \* position in pending of the task being processed
    next_update,      \* arguments of the update_task_status call to come
    callLog,          \* history: awaited calls of the current iteration
    fetches,          \* history: get_pending_tasks calls made
    sleeps,           \* history: arguments of the asyncio.sleep calls
    cresult,          \* what run_continuous returned or raised
    \* SubagentRegistry.get_delegation_prompt
    registerLog,      \* history: the definitions passed to register()
    prompt,           \* what get_delegation_prompt() returned last
    \* GovernanceProvider.should_auto_approve
    proposal,         \* argument proposal (its confidence, in tenths)
    auto_approve,     \* argument auto_approve
    confidence_threshold, \* argument confidence_threshold (in tenths)
    approved          \* what should_auto_approve returned (None: not called)

sessionVars == <<current_session, now, next_uuid, proposalCalls>>

waitVars == <<wpc, timeout, poll_interval, elapsed, polled, wresult>>

delegateVars ==
    <<subagents, delegation_hooks, dpc, dcall, reasonCalls, hookLog,
      providerOutcome, dresult>>

loopVars ==
    <<agent_kind, lpc, tasks, idx, results, execLog, runs>>

continuousVars ==
    <<task_provider, cpc, max_iterations, check_interval, iteration,
      pending, pidx, next_update, callLog, fetches, sleeps, cresult>>

registryVars == <<registerLog, prompt>>

approvalVars == <<proposal, auto_approve, confidence_threshold, approved>>

vars ==
    <<sessionVars, waitVars, delegateVars, loopVars, continuousVars,
      registryVars, approvalVars>>

\* ------------------------------------------------------------------------
\* AgentSession (session.py)
\* ------------------------------------------------------------------------
\* AgentSession(agent_id=...): the field defaults of a new session
NewSession(id, t) ==
    [id |-> id,
     started_at |-> t,
     ended_at |-> None,
     status |-> "active",
     tasks_completed |-> 0,
     proposals_created |-> <<>>,
     errors |-> <<>>]

\* add_proposal without the membership test
add_proposal_always_appends(s, proposal_id) ==
    [s EXCEPT !.proposals_created = Append(@, proposal_id)]

add_proposal(s, proposal_id) ==
    IF proposal_id \notin Range(s.proposals_created)
    THEN [s EXCEPT !.proposals_created = Append(@, proposal_id)]
    ELSE s

\* add_error that keeps only the newest record
add_error_keeps_newest(s, error, context, t) ==
    [s EXCEPT !.errors = <<[error |-> error.msg,
                            type |-> error.type,
                            context |-> context,
                            timestamp |-> t]>>]

add_error(s, error, context, t) ==
    [s EXCEPT !.errors = Append(@, [error |-> error.msg,
                                    type |-> error.type,
                                    context |-> context,
                                    timestamp |-> t])]

\* complete() that forgets to stamp ended_at
complete_without_ended_at(s, t) ==
    [s EXCEPT !.status = "completed"]

\* complete() that stamps ended_at but leaves the status as it was
complete_keeps_status(s, t) ==
    [s EXCEPT !.ended_at = Some(t)]

complete(s, t) ==
    [s EXCEPT !.status = "completed", !.ended_at = Some(t)]

fail(s, error, t) ==
    LET s1 == [s EXCEPT !.status = "failed", !.ended_at = Some(t)]
    IN IF ~IsNone(error) THEN add_error(s1, error[1], None, t) ELSE s1

\* ------------------------------------------------------------------------
\* Specification of one AgentSession driven by its caller
\* ------------------------------------------------------------------------
Session == current_session[1]

Tick ==
    /\ now < MaxTime
    /\ now' = now + 1
    /\ UNCHANGED <<current_session, next_uuid, proposalCalls>>
    /\ UNCHANGED <<waitVars, delegateVars, loopVars, continuousVars,
                   registryVars, approvalVars>>

AddProposal ==
    /\ Len(proposalCalls) < MaxCalls
    /\ \E p \in ProposalIds :
         /\ current_session' = Some(add_proposal(Session, p))
         /\ proposalCalls' = Append(proposalCalls, p)
    /\ UNCHANGED <<now, next_uuid>>
    /\ UNCHANGED <<waitVars, delegateVars, loopVars, continuousVars,
                   registryVars, approvalVars>>

AddError ==
    /\ Len(Session.errors) < MaxErrors
    /\ \E e \in Exceptions, c \in Contexts :
         current_session' = Some(add_error(Session, e, c, now))
    /\ UNCHANGED <<now, next_uuid, proposalCalls>>
    /\ UNCHANGED <<waitVars, delegateVars, loopVars, continuousVars,
                   registryVars, approvalVars>>

Complete ==
    /\ current_session' = Some(complete(Session, now))
    /\ UNCHANGED <<now, next_uuid, proposalCalls>>
    /\ UNCHANGED <<waitVars, delegateVars, loopVars, continuousVars,
                   registryVars, approvalVars>>

Fail ==
    /\ \E e \in {None} \cup {Some(x) : x \in Exceptions} :
         /\ IF IsNone(e) THEN TRUE ELSE Len(Session.errors) < MaxErrors
         /\ current_session' = Some(fail(Session, e, now))
    /\ UNCHANGED <<now, next_uuid, proposalCalls>>
    /\ UNCHANGED <<waitVars, delegateVars, loopVars, continuousVars,
                   registryVars, approvalVars>>

\* No wait_for_approval call has been made
WaitIdle ==
    /\ wpc = "idle"
    /\ timeout = 0
    /\ poll_interval = 0
    /\ elapsed = 0
    /\ polled = <<>>
    /\ wresult = "none"

\* the value of dresult and dcall before any call
NoResult == [kind |-> "none"]

NoCall == [caller |-> "none"]

\* SubagentRegistry.__init__, and no delegate() or reason() call made
DelegateIdle ==
    /\ subagents = <<>>
    /\ delegation_hooks = <<>>
    /\ dpc = "idle"
    /\ dcall = NoCall
    /\ reasonCalls = <<>>
    /\ hookLog = <<>>
    /\ providerOutcome = NoResult
    /\ dresult = NoResult

\* no autonomous_loop call has been made
LoopIdle ==
    /\ agent_kind = "TestAgent"
    /\ lpc = "idle"
    /\ tasks = <<>>
    /\ idx = 0
    /\ results = <<>>
    /\ execLog = <<>>
    /\ runs = 0

\* an agent without a TaskProvider on which run_continuous was not called
ContinuousIdle ==
    /\ task_provider = None
    /\ cpc = "idle"
    /\ max_iterations = None
    /\ check_interval = 0
    /\ iteration = 0
    /\ pending = <<>>
    /\ pidx = 0
    /\ next_update = NoCall
    /\ callLog = <<>>
    /\ fetches = 0
    /\ sleeps = <<>>
    /\ cresult = NoResult

\* get_delegation_prompt() was not called
RegistryIdle ==
    /\ registerLog = <<>>
    /\ prompt = None

\* should_auto_approve was not called; the arguments hold the defaults
\* (Proposal.confidence = 0.7, auto_approve = False, threshold = 0.8)
ApprovalIdle ==
    /\ proposal = [confidence |-> 7]
    /\ auto_approve = FALSE
    /\ confidence_threshold = 8
    /\ approved = None

InitSession ==
    /\ current_session = Some(NewSession(1, 0))
    /\ now = 0
    /\ next_uuid = 2
    /\ proposalCalls = <<>>
    /\ WaitIdle
    /\ DelegateIdle
    /\ LoopIdle
    /\ ContinuousIdle
    /\ RegistryIdle
    /\ ApprovalIdle

NextSession ==
    \/ Tick
    \/ AddProposal
    \/ AddError
    \/ Complete
    \/ Fail

SpecSession == InitSession /\ [][NextSession]_vars

\* ------------------------------------------------------------------------
\* YarnnnClient.wait_for_approval (integrations/yarnnn/client.py), reached
\* through YarnnnGovernance.wait_for_approval, which passes its arguments
\* on and returns the client's result
\* ------------------------------------------------------------------------
\* Proposal.status values of the YARNNN backend
RawStatuses ==
    {"DRAFT", "PROPOSED", "UNDER_REVIEW", "APPROVED", "COMMITTED", "REJECTED"}

\* YarnnnGovernance._map_status: backend status to generic status
map_status(yarnnn_status) ==
    CASE yarnnn_status = "DRAFT" -> "pending"
      [] yarnnn_status = "PROPOSED" -> "pending"
      [] yarnnn_status = "UNDER_REVIEW" -> "pending"
      [] yarnnn_status = "APPROVED" -> "approved"
      [] yarnnn_status = "COMMITTED" -> "approved"
      [] yarnnn_status = "REJECTED" -> "rejected"
      [] OTHER -> "pending"

\* the status test that forgets COMMITTED proposals
poll_decision_ignores_committed(status) ==
    IF status = "APPROVED" THEN "true"
    ELSE IF status = "REJECTED" THEN "false"
    ELSE "continue"

\* the if/elif inside the polling loop: return True, return False or go on
poll_decision(status) ==
    IF status = "APPROVED" \/ status = "COMMITTED" THEN "true"
    ELSE IF status = "REJECTED" THEN "false"
    ELSE "continue"

\* the loop test `while elapsed < timeout`, and the raise after the loop
LoopTest(e, t) ==
    IF e < t
    THEN /\ wpc' = "polling"
         /\ wresult' = "none"
    ELSE /\ wpc' = "done"
         /\ wresult' = "timeout"

\* wait_for_approval(proposal_id, timeout, poll_interval) is called
WaitCall ==
    /\ wpc \in {"idle", "done"}
    /\ \E t \in 0..MaxTimeout, p \in 0..MaxPollInterval :
         /\ timeout' = t
         /\ poll_interval' = p
         /\ elapsed' = 0
         /\ polled' = <<>>
         /\ LoopTest(0, t)
    /\ UNCHANGED <<sessionVars, delegateVars, loopVars, continuousVars,
                   registryVars, approvalVars>>

\* await self.get_proposal(proposal_id) returns a proposal; the history
\* keeps the last MaxPolls statuses, so that a loop that polls without end
\* goes on in the model as it does in the code
GetProposalReturns ==
    /\ wpc = "polling"
    /\ \E st \in RawStatuses :
         /\ polled' = Append(IF Len(polled) < MaxPolls
                             THEN polled ELSE Tail(polled),
                             map_status(st))
         /\ IF poll_decision(st) = "continue"
            THEN /\ wpc' = "sleeping"
                 /\ wresult' = "none"
            ELSE /\ wpc' = "done"
                 /\ wresult' = poll_decision(st)
    /\ UNCHANGED <<timeout, poll_interval, elapsed>>
    /\ UNCHANGED <<sessionVars, delegateVars, loopVars, continuousVars,
                   registryVars, approvalVars>>

\* await self.get_proposal(proposal_id) raises (raise_for_status, transport)
GetProposalRaises ==
    /\ wpc = "polling"
    /\ wpc' = "done"
    /\ wresult' = "error"
    /\ UNCHANGED <<timeout, poll_interval, elapsed, polled>>
    /\ UNCHANGED <<sessionVars, delegateVars, loopVars, continuousVars,
                   registryVars, approvalVars>>

\* asyncio.sleep(poll_interval) returns; elapsed += poll_interval; loop test
SleepReturns ==
    /\ wpc = "sleeping"
    /\ elapsed' = elapsed + poll_interval
    /\ LoopTest(elapsed + poll_interval, timeout)
    /\ UNCHANGED <<timeout, poll_interval, polled>>
    /\ UNCHANGED <<sessionVars, delegateVars, loopVars, continuousVars,
                   registryVars, approvalVars>>

InitWait ==
    /\ current_session = None
    /\ now = 0
    /\ next_uuid = 1
    /\ proposalCalls = <<>>
    /\ WaitIdle
    /\ DelegateIdle
    /\ LoopIdle
    /\ ContinuousIdle
    /\ RegistryIdle
    /\ ApprovalIdle

NextWait ==
    \/ WaitCall
    \/ GetProposalReturns
    \/ GetProposalRaises
    \/ SleepReturns

SpecWait == InitWait /\ [][NextWait]_vars

\* every awaited get_proposal and sleep comes back
SpecWaitLive == SpecWait /\ WF_vars(NextWait)

\* ------------------------------------------------------------------------
\* SubagentRegistry (subagents.py), BaseAgent._execute_subagent and
\* BaseAgent.reason (base.py).  A tool is a record with a name; the message
\* list of a request is represented by its task.  Hooks and the reasoning
\* provider either return or raise an Exception.
\* ------------------------------------------------------------------------
SubagentNames == {"writer", "analyst"}

\* a name no subagent is ever registered under
UnregisteredName == "ghost"

Tool(n) == [name |-> n]

\* the tools keyword argument a caller hands to delegate() or reason()
CallerTools ==
    {None,
     Some(<<>>),
     Some(<<Tool("search"), Tool("fetch")>>),
     Some(<<Tool("fetch"), Tool("search")>>)}

SubagentDefinition(n, t, m) ==
    [name |-> n,
     description |-> "description",
     system_prompt |-> "subagent prompt",
     tools |-> t,
     model |-> m]

\* the definitions a caller registers: tools is None or a list of tool
\* names, model is None or a model name
SubagentDefinitions ==
    {SubagentDefinition("writer", Some(<<"search">>), None),
     SubagentDefinition("writer", Some(<<>>), Some("claude-haiku")),
     SubagentDefinition("writer", Some(<<"search", "fetch">>), None),
     SubagentDefinition("analyst", None, None),
     SubagentDefinition("analyst", None, Some("claude-haiku"))}

Tasks == {"task_a", "task_b"}

\* what self.claude.messages.create raises when it fails
ProviderErrors == {[type |-> "RuntimeError", msg |-> "API Error"]}

\* hooks by behaviour: one returns, one raises an Exception
Hooks == {"hook_returns", "hook_raises"}

HookError == [type |-> "RuntimeError", msg |-> "hook failed"]

HookRaises(h) == h = "hook_raises"

\* BaseAgent.model, the constructor default
ParentModel == "claude-sonnet-4-5"

\* BaseAgent._get_default_system_prompt: always a non-empty string
DefaultSystemPrompt == "default prompt"

\* Python truth of an Optional list: neither None nor empty
TruthyList(o) == ~IsNone(o) /\ o[1] # <<>>

\* Python truth of an Optional string
TruthyStr(o) == ~IsNone(o) /\ o[1] # ""

Returned(v) == [kind |-> "returned", value |-> v]

Raised(e) == [kind |-> "raised", value |-> e]

\* SubagentRegistry.register: self.subagents[definition.name] = definition
\* (a dict keeps the position of a key that is assigned again)
register(subs, definition) ==
    IF \E k \in 1..Len(subs) : subs[k].name = definition.name
    THEN [k \in 1..Len(subs) |->
            IF subs[k].name = definition.name THEN definition ELSE subs[k]]
    ELSE Append(subs, definition)

\* a lookup that falls back to the first registered subagent
get_subagent_with_fallback(subs, name) ==
    IF \E k \in 1..Len(subs) : subs[k].name = name
    THEN Some(subs[CHOOSE k \in 1..Len(subs) : subs[k].name = name])
    ELSE IF subs # <<>> THEN Some(subs[1]) ELSE None

\* SubagentRegistry.get_subagent: self.subagents.get(name)
get_subagent(subs, name) ==
    IF \E k \in 1..Len(subs) : subs[k].name = name
    THEN Some(subs[CHOOSE k \in 1..Len(subs) : subs[k].name = name])
    ELSE None

\* the list comprehension [t for t in tools if t["name"] in subagent.tools]
RECURSIVE FilterByName(_, _)
FilterByName(tools, allowed) ==
    IF tools = <<>> THEN <<>>
    ELSE IF Head(tools).name \in Range(allowed)
         THEN <<Head(tools)>> \o FilterByName(Tail(tools), allowed)
         ELSE FilterByName(Tail(tools), allowed)

\* _execute_subagent: the tools argument it passes to reason()
subagent_tools(subagent, tools) ==
    IF TruthyList(subagent.tools) /\ TruthyList(tools)
    THEN Some(FilterByName(tools[1], subagent.tools[1]))
    ELSE tools

\* reason(): request_params built from the arguments
request_params(task, system_prompt, tools) ==
    [model |-> ParentModel,
     task |-> task,
     system |-> IF TruthyStr(system_prompt)
                THEN system_prompt[1] ELSE DefaultSystemPrompt,
     tools |-> IF TruthyList(tools)
               THEN Some([k \in 1..Len(tools[1]) |->
                            [name |-> tools[1][k].name]])
               ELSE None]

\* one reason() call as seen by the provider and by the caller of reason()
ReasonCallRecord(task, system_prompt, tools) ==
    [task |-> task,
     system_prompt |-> system_prompt,
     tools |-> tools,
     request |-> request_params(task, system_prompt, tools)]

\* the response object of the provider for a request
Response(request) == [content |-> request.task, model |-> request.model]

\* reason() that swallows the provider's exception after recording it
reason_finish_swallows(session, outcome, t) ==
    IF outcome.kind = "returned"
    THEN [session |-> session, result |-> outcome]
    ELSE [session |-> IF ~IsNone(session)
                      THEN Some(add_error(session[1], outcome.value,
                                          Some("reasoning"), t))
                      ELSE session,
          result |-> Returned([content |-> "", model |-> ParentModel])]

\* reason() after the provider call: return the response, or record the
\* error in the session (if there is one) and re-raise it
reason_finish(session, outcome, t) ==
    IF outcome.kind = "returned"
    THEN [session |-> session, result |-> outcome]
    ELSE [session |-> IF ~IsNone(session)
                      THEN Some(add_error(session[1], outcome.value,
                                          Some("reasoning"), t))
                      ELSE session,
          result |-> outcome]

HookCall(h, subagent_name, task, result) ==
    [hook |-> h, subagent_name |-> subagent_name, task |-> task,
     result |-> result]

\* a hook loop without the try/except around the hook call
RECURSIVE run_hooks_uncaught(_, _, _, _)
run_hooks_uncaught(hooks, subagent_name, task, result) ==
    IF hooks = <<>> THEN [log |-> <<>>, raised |-> None]
    ELSE IF HookRaises(Head(hooks))
         THEN [log |-> <<HookCall(Head(hooks), subagent_name, task, result)>>,
               raised |-> Some(HookError)]
         ELSE LET rest == run_hooks_uncaught(Tail(hooks), subagent_name,
                                             task, result)
              IN [log |-> <<HookCall(Head(hooks), subagent_name, task,
                                     result)>> \o rest.log,
                  raised |-> rest.raised]

\* delegate(): for hook in self.delegation_hooks: try: hook(...) except
\* Exception: warning.  log: the calls made; raised: an escaping exception
RECURSIVE run_hooks(_, _, _, _)
run_hooks(hooks, subagent_name, task, result) ==
    IF hooks = <<>> THEN [log |-> <<>>, raised |-> None]
    ELSE LET rest == run_hooks(Tail(hooks), subagent_name, task, result)
         IN [log |-> <<HookCall(Head(hooks), subagent_name, task, result)>>
                       \o rest.log,
             raised |-> rest.raised]

\* delegate() with the hook loop in a finally block: hooks also run when
\* _execute_subagent raised, with no result to pass
delegate_finish_hooks_on_failure(hooks, subagent_name, task, outcome) ==
    LET r == run_hooks(hooks, subagent_name, task,
                       IF outcome.kind = "raised"
                       THEN [content |-> "", model |-> ""]
                       ELSE outcome.value)
    IN [log |-> r.log,
        result |-> IF IsNone(r.raised) THEN outcome
                   ELSE Raised(r.raised[1])]

\* delegate() after _execute_subagent: a raised error propagates at once;
\* otherwise the hooks run and the result is returned
delegate_finish(hooks, subagent_name, task, outcome) ==
    IF outcome.kind = "raised"
    THEN [log |-> <<>>, result |-> outcome]
    ELSE LET r == run_hooks(hooks, subagent_name, task, outcome.value)
         IN [log |-> r.log,
             result |-> IF IsNone(r.raised) THEN outcome
                        ELSE Raised(r.raised[1])]

UnknownSubagentError == [type |-> "ValueError", msg |-> "Subagent not found"]

\* SubagentRegistry.register(definition)
Register ==
    /\ dpc \in {"idle", "done"}
    /\ \E d \in SubagentDefinitions : subagents' = register(subagents, d)
    /\ UNCHANGED <<delegation_hooks, dpc, dcall, reasonCalls, hookLog,
                   providerOutcome, dresult>>
    /\ UNCHANGED <<sessionVars, waitVars, loopVars, continuousVars,
                   registryVars, approvalVars>>

\* SubagentRegistry.add_delegation_hook(hook)
AddDelegationHook ==
    /\ dpc \in {"idle", "done"}
    /\ Len(delegation_hooks) < MaxHooks
    /\ \E h \in Hooks : delegation_hooks' = Append(delegation_hooks, h)
    /\ UNCHANGED <<subagents, dpc, dcall, reasonCalls, hookLog,
                   providerOutcome, dresult>>
    /\ UNCHANGED <<sessionVars, waitVars, loopVars, continuousVars,
                   registryVars, approvalVars>>

\* delegate(subagent_name, task, tools=...) up to the provider call: the
\* lookup, then _execute_subagent and reason() building the request
DelegateCall ==
    /\ dpc \in {"idle", "done"}
    /\ \E name \in SubagentNames \cup {UnregisteredName},
          task \in Tasks, tools \in CallerTools :
         LET subagent == get_subagent(subagents, name)
         IN /\ dcall' = [caller |-> "delegate", subagent_name |-> name,
                         task |-> task, tools |-> tools]
            /\ hookLog' = <<>>
            /\ providerOutcome' = NoResult
            /\ IF IsNone(subagent)
               THEN /\ dpc' = "done"
                    /\ dresult' = Raised(UnknownSubagentError)
                    /\ reasonCalls' = <<>>
               ELSE /\ dpc' = "reasoning"
                    /\ dresult' = NoResult
                    /\ reasonCalls' =
                         <<ReasonCallRecord(task,
                              Some(subagent[1].system_prompt),
                              subagent_tools(subagent[1], tools))>>
    /\ UNCHANGED <<subagents, delegation_hooks>>
    /\ UNCHANGED <<sessionVars, waitVars, loopVars, continuousVars,
                   registryVars, approvalVars>>

\* reason(task, system_prompt=..., tools=...) called directly, up to the
\* provider call
ReasonCall ==
    /\ dpc \in {"idle", "done"}
    /\ \E task \in Tasks, tools \in CallerTools,
          system_prompt \in {None, Some("custom prompt")} :
         /\ dcall' = [caller |-> "reason", task |-> task, tools |-> tools]
         /\ reasonCalls' = <<ReasonCallRecord(task, system_prompt, tools)>>
    /\ hookLog' = <<>>
    /\ providerOutcome' = NoResult
    /\ dpc' = "reasoning"
    /\ dresult' = NoResult
    /\ UNCHANGED <<subagents, delegation_hooks>>
    /\ UNCHANGED <<sessionVars, waitVars, loopVars, continuousVars,
                   registryVars, approvalVars>>

\* the rest of reason() and, for a delegation, of delegate(), given what
\* self.claude.messages.create did
Finish(outcome) ==
    LET r == reason_finish(current_session, outcome, now)
    IN /\ current_session' = r.session
       /\ IF dcall.caller = "delegate"
          THEN LET d == delegate_finish(delegation_hooks,
                                        dcall.subagent_name, dcall.task,
                                        r.result)
               IN /\ hookLog' = d.log
                  /\ dresult' = d.result
          ELSE /\ hookLog' = <<>>
               /\ dresult' = r.result
       /\ providerOutcome' = outcome
       /\ dpc' = "done"
       /\ UNCHANGED <<subagents, delegation_hooks, dcall, reasonCalls>>
       /\ UNCHANGED <<now, next_uuid, proposalCalls>>
       /\ UNCHANGED <<waitVars, loopVars, continuousVars,
                      registryVars, approvalVars>>

\* self.claude.messages.create(**request_params) returns a response
ProviderReturns ==
    /\ dpc = "reasoning"
    /\ Finish(Returned(Response(reasonCalls[Len(reasonCalls)].request)))

\* self.claude.messages.create(**request_params) raises an Exception
ProviderRaises ==
    /\ dpc = "reasoning"
    /\ IF IsNone(current_session) THEN TRUE
       ELSE Len(Session.errors) < MaxErrors
    /\ \E e \in ProviderErrors : Finish(Raised(e))

\* an agent constructed without or with a session_id
InitDelegate ==
    /\ current_session \in {None, Some(NewSession(1, 0))}
    /\ now = 0
    /\ next_uuid = 2
    /\ proposalCalls = <<>>
    /\ WaitIdle
    /\ DelegateIdle
    /\ LoopIdle
    /\ ContinuousIdle
    /\ RegistryIdle
    /\ ApprovalIdle

NextDelegate ==
    \/ Register
    \/ AddDelegationHook
    \/ DelegateCall
    \/ ReasonCall
    \/ ProviderReturns
    \/ ProviderRaises

SpecDelegate == InitDelegate /\ [][NextDelegate]_vars

\* ------------------------------------------------------------------------
\* BaseAgent.autonomous_loop (base.py) over the execute() of a subclass:
\* TestAgent (tests/test_base_agent.py) and KnowledgeAgent
\* (examples/knowledge-agent/agent_v2.py)
\* ------------------------------------------------------------------------
AgentKinds == {"TestAgent", "KnowledgeAgent"}

\* what self.memory.query raises when it fails
MemoryErrors == {[type |-> "ConnectionError", msg |-> "memory unavailable"]}

\* what the awaited calls inside execute() do: all return, the memory
\* query raises, or the provider call inside reason() raises
ExecuteOutcomes ==
    {[step |-> "ok"]}
    \cup {[step |-> "memory", error |-> e] : e \in MemoryErrors}
    \cup {[step |-> "reasoning", error |-> e] : e \in ProviderErrors}

\* an execute() that starts a session on every call
session_or_new_always(session, uuid, t) ==
    NewSession(uuid, t)

\* BaseAgent._start_session when there is no current session
session_or_new(session, uuid, t) ==
    IF IsNone(session) THEN NewSession(uuid, t) ELSE session[1]

\* the dict a successful execute() returns
ExecuteValue(s, task) ==
    [response |-> Response(request_params(task, None, None)),
     session_id |-> s.id]

\* execute(task) of the subclass: the session afterwards and the result
execute(kind, session, task, outcome, uuid, t) ==
    LET s0 == session_or_new(session, uuid, t)
        \* reason(): the failed provider call is recorded, then re-raised
        s1 == IF outcome.step = "reasoning"
              THEN reason_finish(Some(s0), Raised(outcome.error), t).session[1]
              ELSE s0
    IN IF kind = "KnowledgeAgent"
       THEN IF outcome.step = "ok"
            THEN [session |-> Some([s1 EXCEPT !.tasks_completed = @ + 1]),
                  result |-> Returned(ExecuteValue(s1, task))]
            ELSE [session |-> Some(add_error(s1, outcome.error,
                                             Some("execute"), t)),
                  result |-> Raised(outcome.error)]
       ELSE IF outcome.step = "ok"
            THEN [session |-> Some(s1),
                  result |-> Returned(ExecuteValue(s1, task))]
            ELSE [session |-> Some(s1), result |-> Raised(outcome.error)]

\* a context built from the enumerate index itself, f"task_{i}"
TaskContext_zero_based(i) ==
    CASE i = 0 -> "task_0"
      [] i = 1 -> "task_1"
      [] i = 2 -> "task_2"
      [] OTHER -> "task_n"

\* f"task_{i+1}" for the enumerate index i (0-based)
TaskContext(i) ==
    CASE i = 0 -> "task_1"
      [] i = 1 -> "task_2"
      [] i = 2 -> "task_3"
      [] OTHER -> "task_n"

\* a loop body that appends nothing to results for a failed task
loop_body_drops_failed_result(session, res, i, exec_result, t) ==
    IF exec_result.kind = "returned"
    THEN [session |-> [session EXCEPT !.tasks_completed = @ + 1],
          results |-> Append(res, exec_result.value)]
    ELSE [session |-> add_error(session, exec_result.value,
                                Some(TaskContext(i)), t),
          results |-> res]

\* the try/except of one loop iteration, after execute() came back
loop_body(session, res, i, exec_result, t) ==
    IF exec_result.kind = "returned"
    THEN [session |-> [session EXCEPT !.tasks_completed = @ + 1],
          results |-> Append(res, exec_result.value)]
    ELSE [session |-> add_error(session, exec_result.value,
                                Some(TaskContext(i)), t),
          results |-> Append(res, [error |-> exec_result.value.msg])]

TaskLists ==
    UNION {[1..n -> Tasks] : n \in 0..MaxTasks}

\* autonomous_loop(tasks) is called: the session is started if there is
\* none; with no tasks the loop body never runs and the session is
\* completed at once.  The asyncio.sleep(delay_between_tasks) between two
\* tasks changes no state but the time, which Tick advances.
LoopCall ==
    /\ lpc \in {"idle", "done"}
    /\ runs < MaxRuns
    /\ runs' = runs + 1
    /\ \E ts \in TaskLists :
         /\ tasks' = ts
         /\ IF ts = <<>>
            THEN /\ lpc' = "done"
                 /\ current_session' =
                      Some(complete(session_or_new(current_session,
                                                   next_uuid, now), now))
            ELSE /\ lpc' = "running"
                 /\ current_session' =
                      Some(session_or_new(current_session, next_uuid, now))
    /\ next_uuid' = IF IsNone(current_session)
                    THEN next_uuid + 1 ELSE next_uuid
    /\ idx' = 0
    /\ results' = <<>>
    /\ execLog' = <<>>
    /\ UNCHANGED <<now, proposalCalls, agent_kind>>
    /\ UNCHANGED <<waitVars, delegateVars, continuousVars,
                   registryVars, approvalVars>>

\* await self.execute(task) comes back for tasks[idx + 1]; the rest of the
\* iteration runs, and after the last task the session is completed
LoopStep ==
    /\ lpc = "running"
    /\ \E outcome \in ExecuteOutcomes :
         LET task == tasks[idx + 1]
             e == execute(agent_kind, current_session, task, outcome,
                          next_uuid, now)
             b == loop_body(e.session[1], results, idx, e.result, now)
             last == idx + 1 = Len(tasks)
         IN /\ outcome.step # "ok" => Len(Session.errors) < MaxErrors
            /\ execLog' = Append(execLog, [task |-> task,
                                           result |-> e.result])
            /\ results' = b.results
            /\ idx' = idx + 1
            /\ current_session' = IF last
                                  THEN Some(complete(b.session, now))
                                  ELSE Some(b.session)
            /\ lpc' = IF last THEN "done" ELSE "running"
    /\ UNCHANGED <<tasks, runs, agent_kind>>
    /\ UNCHANGED <<now, next_uuid, proposalCalls>>
    /\ UNCHANGED <<waitVars, delegateVars, continuousVars,
                   registryVars, approvalVars>>

\* an agent of either subclass, constructed without or with a session_id
InitLoop ==
    /\ current_session \in {None, Some(NewSession(1, 0))}
    /\ now = 0
    /\ next_uuid = 2
    /\ proposalCalls = <<>>
    /\ WaitIdle
    /\ DelegateIdle
    /\ agent_kind \in AgentKinds
    /\ lpc = "idle"
    /\ tasks = <<>>
    /\ idx = 0
    /\ results = <<>>
    /\ execLog = <<>>
    /\ runs = 0
    /\ ContinuousIdle
    /\ RegistryIdle
    /\ ApprovalIdle

NextLoop ==
    \/ Tick
    \/ LoopCall
    \/ LoopStep

SpecLoop == InitLoop /\ [][NextLoop]_vars

\* ------------------------------------------------------------------------
\* execute(task) called directly by the owner of the agent, one call after
\* the other
\* ------------------------------------------------------------------------
\* await agent.execute(task) comes back; the id of the session the call
\* worked on is remembered with its outcome.  A session started by the call
\* uses up the next uuid.
ExecuteCall ==
    /\ lpc = "idle"
    /\ Len(execLog) < MaxExecutes
    /\ \E task \in Tasks, outcome \in ExecuteOutcomes :
         LET e == execute(agent_kind, current_session, task, outcome,
                          next_uuid, now)
         IN /\ IF outcome.step = "ok" \/ IsNone(current_session) THEN TRUE
               ELSE Len(Session.errors) < MaxErrors
            /\ current_session' = e.session
            /\ next_uuid' = IF e.session[1].id = next_uuid
                            THEN next_uuid + 1 ELSE next_uuid
            /\ execLog' = Append(execLog, [task |-> task,
                                           result |-> e.result,
                                           session_id |-> e.session[1].id])
    /\ UNCHANGED <<agent_kind, lpc, tasks, idx, results, runs>>
    /\ UNCHANGED <<now, proposalCalls>>
    /\ UNCHANGED <<waitVars, delegateVars, continuousVars, registryVars,
                   approvalVars>>

\* an agent of either subclass constructed without a session id
InitExecute ==
    /\ current_session = None
    /\ now = 0
    /\ next_uuid = 2
    /\ proposalCalls = <<>>
    /\ WaitIdle
    /\ DelegateIdle
    /\ agent_kind \in AgentKinds
    /\ lpc = "idle"
    /\ tasks = <<>>
    /\ idx = 0
    /\ results = <<>>
    /\ execLog = <<>>
    /\ runs = 0
    /\ ContinuousIdle
    /\ RegistryIdle
    /\ ApprovalIdle

NextExecute ==
    \/ Tick
    \/ ExecuteCall

SpecExecute == InitExecute /\ [][NextExecute]_vars

\* ------------------------------------------------------------------------
\* BaseAgent.run_continuous (base.py) against a TaskProvider
\* (interfaces.py)
\* ------------------------------------------------------------------------
\* interfaces.py Task: the fields run_continuous reads
Task(id, description) == [id |-> id, description |-> description]

\* what get_pending_tasks can return, in the order it returns them
PendingLists ==
    {<<>>,
     <<Task("t1", "task_a")>>,
     <<Task("t1", "task_a"), Task("t2", "task_b")>>,
     <<Task("t2", "task_b"), Task("t1", "task_a")>>}

\* what a failing TaskProvider call raises
TaskProviderErrors ==
    {[type |-> "ConnectionError", msg |-> "task provider unavailable"]}

\* raise ValueError("Task provider required for continuous operation")
ConfigurationError ==
    [type |-> "ValueError",
     msg |-> "Task provider required for continuous operation"]

MaxIterationsChoices == {None} \cup {Some(k) : k \in 0..MaxIterations}

CheckIntervals == {1, 60}

\* a loop condition that lets one iteration too many through
while_test_off_by_one(max_iter, iter) ==
    IF IsNone(max_iter) THEN TRUE ELSE iter <= max_iter[1]

\* while max_iterations is None or iteration < max_iterations
while_test(max_iter, iter) ==
    IF IsNone(max_iter) THEN TRUE ELSE iter < max_iter[1]

\* the arguments of one update_task_status call
update_task_status(task_id, status, result, error) ==
    [op |-> "update_task_status", task_id |-> task_id, status |-> status,
     result |-> result, error |-> error]

\* a report that says "completed" whatever execute did
report_of_always_completed(task, exec_result) ==
    update_task_status(task.id, "completed", Some(exec_result.value), None)

\* the status update that follows execute(task.description)
report_of(task, exec_result) ==
    IF exec_result.kind = "returned"
    THEN update_task_status(task.id, "completed",
                            Some(exec_result.value), None)
    ELSE update_task_status(task.id, "failed", None,
                            Some(exec_result.value.msg))

\* the for loop moves to the next pending task, or the iteration ends
next_task(pend, k) ==
    IF k < Len(pend)
    THEN [cpc |-> "update", pidx |-> k + 1,
          next_update |-> update_task_status(pend[k + 1].id, "in_progress",
                                             None, None)]
    ELSE [cpc |-> "sleep", pidx |-> k, next_update |-> NoCall]

\* a loop in which a raising status update is not handled
after_update_propagates(update, raised, pend, k) ==
    IF IsNone(raised)
    THEN IF update.status = "in_progress"
         THEN [cpc |-> "exec", pidx |-> k, next_update |-> NoCall]
         ELSE next_task(pend, k)
    ELSE [cpc |-> "raised", pidx |-> k, next_update |-> NoCall]

\* where control goes when an update_task_status call comes back; raised is
\* None or the exception.  A raising "completed" update is inside the inner
\* try, so its handler reports the task as failed; every other raising
\* update leaves the for loop through the outer handler.
after_update(update, raised, pend, k) ==
    IF IsNone(raised)
    THEN IF update.status = "in_progress"
         THEN [cpc |-> "exec", pidx |-> k, next_update |-> NoCall]
         ELSE next_task(pend, k)
    ELSE IF update.status = "completed"
         THEN [cpc |-> "update", pidx |-> k,
               next_update |-> update_task_status(update.task_id, "failed",
                                                  None, Some(raised[1].msg))]
         ELSE [cpc |-> "sleep", pidx |-> k, next_update |-> NoCall]

\* an entry that starts the loop whether or not there is a TaskProvider
continuous_entry_without_check(provider, max_iter) ==
    IF while_test(max_iter, 0)
    THEN [cpc |-> "fetch", cresult |-> NoResult]
    ELSE [cpc |-> "done", cresult |-> Returned(None)]

\* the statements of run_continuous before the first iteration; `not
\* self.tasks` is true exactly for None (a TaskProvider object is truthy)
continuous_entry(provider, max_iter) ==
    IF IsNone(provider)
    THEN [cpc |-> "raised", cresult |-> Raised(ConfigurationError)]
    ELSE IF while_test(max_iter, 0)
    THEN [cpc |-> "fetch", cresult |-> NoResult]
    ELSE [cpc |-> "done", cresult |-> Returned(None)]

\* run_continuous(check_interval, max_iterations) is called
ContinuousCall ==
    /\ cpc = "idle"
    /\ \E mi \in MaxIterationsChoices, ci \in CheckIntervals :
         LET c == continuous_entry(task_provider, mi)
         IN /\ max_iterations' = mi
            /\ check_interval' = ci
            /\ cpc' = c.cpc
            /\ cresult' = c.cresult
    /\ iteration' = 0
    /\ UNCHANGED <<task_provider, pending, pidx, next_update, callLog,
                   fetches, sleeps>>
    /\ UNCHANGED <<sessionVars, waitVars, delegateVars, loopVars,
                   registryVars, approvalVars>>

\* await self.tasks.get_pending_tasks(self.agent_id) returns
GetPendingTasksReturns ==
    /\ cpc = "fetch"
    /\ fetches < MaxFetches
    /\ fetches' = fetches + 1
    /\ \E p \in PendingLists :
         LET n == next_task(p, 0)
         IN /\ pending' = p
            /\ callLog' = <<[op |-> "get_pending_tasks", raised |-> FALSE,
                             result |-> p]>>
            /\ cpc' = n.cpc
            /\ pidx' = n.pidx
            /\ next_update' = n.next_update
    /\ UNCHANGED <<task_provider, max_iterations, check_interval, iteration,
                   sleeps, cresult>>
    /\ UNCHANGED <<sessionVars, waitVars, delegateVars, loopVars,
                   registryVars, approvalVars>>

\* await self.tasks.get_pending_tasks(self.agent_id) raises: pending keeps
\* the value of the iteration before and is not read
GetPendingTasksRaises ==
    /\ cpc = "fetch"
    /\ fetches < MaxFetches
    /\ fetches' = fetches + 1
    /\ callLog' = <<[op |-> "get_pending_tasks", raised |-> TRUE]>>
    /\ cpc' = "sleep"
    /\ UNCHANGED <<task_provider, max_iterations, check_interval, iteration,
                   pending, pidx, next_update, sleeps, cresult>>
    /\ UNCHANGED <<sessionVars, waitVars, delegateVars, loopVars,
                   registryVars, approvalVars>>

\* the awaited update_task_status call comes back
UpdateComesBack(raised) ==
    LET a == after_update(next_update, raised, pending, pidx)
    IN /\ cpc = "update"
       /\ callLog' = Append(callLog, [op |-> "update_task_status",
                                      args |-> next_update,
                                      raised |-> ~IsNone(raised)])
       /\ cpc' = a.cpc
       /\ pidx' = a.pidx
       /\ next_update' = a.next_update
       /\ UNCHANGED <<task_provider, max_iterations, check_interval,
                      iteration, pending, fetches, sleeps, cresult>>
       /\ UNCHANGED <<sessionVars, waitVars, delegateVars, loopVars,
                      registryVars, approvalVars>>

UpdateTaskStatusReturns == UpdateComesBack(None)

UpdateTaskStatusRaises == \E e \in TaskProviderErrors : UpdateComesBack(Some(e))

\* await self.execute(task.description) comes back for pending[pidx]
ContinuousExecute ==
    /\ cpc = "exec"
    /\ \E outcome \in ExecuteOutcomes :
         LET task == pending[pidx]
             e == execute(agent_kind, current_session, task.description,
                          outcome, next_uuid, now)
         IN /\ IF outcome.step = "ok" \/ IsNone(current_session) THEN TRUE
               ELSE Len(Session.errors) < MaxErrors
            /\ current_session' = e.session
            /\ callLog' = Append(callLog, [op |-> "execute",
                                           args |-> task.description,
                                           raised |-> e.result.kind = "raised",
                                           result |-> e.result])
            /\ next_update' = report_of(task, e.result)
    /\ cpc' = "update"
    /\ next_uuid' = IF IsNone(current_session)
                    THEN next_uuid + 1 ELSE next_uuid
    /\ UNCHANGED <<task_provider, max_iterations, check_interval, iteration,
                   pending, pidx, fetches, sleeps, cresult>>
    /\ UNCHANGED <<now, proposalCalls>>
    /\ UNCHANGED <<waitVars, delegateVars, loopVars,
                   registryVars, approvalVars>>

\* await asyncio.sleep(check_interval) returns; iteration += 1; the while
\* condition is tested again.  The clock advances while the loop sleeps
\* (as far as MaxTime allows); the awaited provider calls are taken to
\* come back within one clock reading.
ContinuousSleep ==
    /\ cpc = "sleep"
    /\ now' = IF now < MaxTime THEN now + 1 ELSE now
    /\ sleeps' = Append(sleeps, check_interval)
    /\ iteration' = iteration + 1
    /\ IF while_test(max_iterations, iteration + 1)
       THEN /\ cpc' = "fetch"
            /\ cresult' = NoResult
       ELSE /\ cpc' = "done"
            /\ cresult' = Returned(None)
    /\ UNCHANGED <<task_provider, max_iterations, check_interval, pending,
                   pidx, next_update, callLog, fetches>>
    /\ UNCHANGED <<current_session, next_uuid, proposalCalls>>
    /\ UNCHANGED <<waitVars, delegateVars, loopVars,
                   registryVars, approvalVars>>

\* an agent of either subclass, with or without a TaskProvider and a session
InitContinuous ==
    /\ current_session \in {None, Some(NewSession(1, 0))}
    /\ now = 0
    /\ next_uuid = 2
    /\ proposalCalls = <<>>
    /\ WaitIdle
    /\ DelegateIdle
    /\ agent_kind \in AgentKinds
    /\ lpc = "idle"
    /\ tasks = <<>>
    /\ idx = 0
    /\ results = <<>>
    /\ execLog = <<>>
    /\ runs = 0
    /\ task_provider \in {None, Some("TaskProvider")}
    /\ cpc = "idle"
    /\ max_iterations = None
    /\ check_interval = 0
    /\ iteration = 0
    /\ pending = <<>>
    /\ pidx = 0
    /\ next_update = NoCall
    /\ callLog = <<>>
    /\ fetches = 0
    /\ sleeps = <<>>
    /\ cresult = NoResult
    /\ RegistryIdle
    /\ ApprovalIdle

NextContinuous ==
    \/ ContinuousCall
    \/ GetPendingTasksReturns
    \/ GetPendingTasksRaises
    \/ UpdateTaskStatusReturns
    \/ UpdateTaskStatusRaises
    \/ ContinuousExecute
    \/ ContinuousSleep

SpecContinuous == InitContinuous /\ [][NextContinuous]_vars

\* every awaited call comes back: a step is taken whenever one is possible
SpecContinuousLive == SpecContinuous /\ WF_vars(NextContinuous)

\* ------------------------------------------------------------------------
\* SubagentRegistry.get_delegation_prompt (subagents.py)
\* ------------------------------------------------------------------------
\* the definitions registered here: a third name besides SubagentNames
RegistryDefinitions ==
    SubagentDefinitions \cup {SubagentDefinition("reviewer", None, None)}

\* the pieces a rendered string is made of, in order: literal text and the
\* interpolated values; the empty string has no piece
Heading == "\n### "

PromptHeader ==
    <<"\n## Available Subagents\n", "\n",
      "You can delegate tasks to specialized subagents:\n">>

PromptTrailer ==
    <<"\n", "\nTo delegate to a subagent, use the delegate_to_subagent tool.">>

\* the two parts appended for one definition, each after the "\n" of join
PromptParts(definition) ==
    <<"\n", Heading, definition.name, "\n", definition.description, "\n">>

\* the parts of all definitions in the order of self.subagents.values()
RECURSIVE PromptBody(_)
PromptBody(subs) ==
    IF subs = <<>> THEN <<>>
    ELSE PromptParts(Head(subs)) \o PromptBody(Tail(subs))

\* a prompt that lists only the subagent registered first
get_delegation_prompt_first_only(subs) ==
    IF subs = <<>> THEN <<>>
    ELSE PromptHeader \o PromptParts(Head(subs)) \o PromptTrailer

get_delegation_prompt(subs) ==
    IF subs = <<>> THEN <<>>
    ELSE PromptHeader \o PromptBody(subs) \o PromptTrailer

\* registry.register(definition), with the call remembered
RegistryRegister ==
    /\ Len(registerLog) < MaxRegistrations
    /\ \E d \in RegistryDefinitions :
         /\ subagents' = register(subagents, d)
         /\ registerLog' = Append(registerLog, d)
    /\ UNCHANGED <<prompt, delegation_hooks, dpc, dcall, reasonCalls,
                   hookLog, providerOutcome, dresult>>
    /\ UNCHANGED <<sessionVars, waitVars, loopVars,
                   continuousVars, approvalVars>>

\* registry.get_delegation_prompt() is called
GetDelegationPrompt ==
    /\ prompt' = Some(get_delegation_prompt(subagents))
    /\ UNCHANGED <<registerLog, delegateVars>>
    /\ UNCHANGED <<sessionVars, waitVars, loopVars,
                   continuousVars, approvalVars>>

InitRegistry ==
    /\ current_session = None
    /\ now = 0
    /\ next_uuid = 2
    /\ proposalCalls = <<>>
    /\ WaitIdle
    /\ DelegateIdle
    /\ LoopIdle
    /\ ContinuousIdle
    /\ RegistryIdle
    /\ ApprovalIdle

NextRegistry ==
    \/ RegistryRegister
    \/ GetDelegationPrompt

SpecRegistry == InitRegistry /\ [][NextRegistry]_vars

\* ------------------------------------------------------------------------
\* GovernanceProvider.should_auto_approve (interfaces.py); confidence and
\* threshold are floats in [0, 1], here counted in tenths
\* ------------------------------------------------------------------------
ConfidenceLevels == 0..MaxConfidence

\* a rule that approves only a confidence above the threshold
should_auto_approve_strict(p, auto, threshold) ==
    IF ~auto THEN FALSE
    ELSE p.confidence > threshold

should_auto_approve(p, auto, threshold) ==
    IF ~auto THEN FALSE
    ELSE p.confidence >= threshold

\* await governance.should_auto_approve(proposal, auto_approve, threshold)
ShouldAutoApprove ==
    /\ approved' = Some(should_auto_approve(proposal, auto_approve,
                                            confidence_threshold))
    /\ UNCHANGED <<proposal, auto_approve, confidence_threshold>>
    /\ UNCHANGED <<sessionVars, waitVars, delegateVars, loopVars,
                   continuousVars, registryVars>>

\* the caller passes another proposal to the same provider
NextProposal ==
    /\ \E c \in ConfidenceLevels : proposal' = [confidence |-> c]
    /\ approved' = None
    /\ UNCHANGED <<auto_approve, confidence_threshold>>
    /\ UNCHANGED <<sessionVars, waitVars, delegateVars, loopVars,
                   continuousVars, registryVars>>

\* the arguments range over every confidence, flag and threshold
InitApproval ==
    /\ current_session = None
    /\ now = 0
    /\ next_uuid = 2
    /\ proposalCalls = <<>>
    /\ WaitIdle
    /\ DelegateIdle
    /\ LoopIdle
    /\ ContinuousIdle
    /\ RegistryIdle
    /\ proposal \in [confidence : ConfidenceLevels]
    /\ auto_approve \in BOOLEAN
    /\ confidence_threshold \in ConfidenceLevels
    /\ approved = None

NextApproval ==
    \/ ShouldAutoApprove
    \/ NextProposal

SpecApproval == InitApproval /\ [][NextApproval]_vars

\* ------------------------------------------------------------------------
\* Properties of AgentSession
\* ------------------------------------------------------------------------
\* The distinct elements of a call history, in order of first occurrence
RECURSIVE FirstOccurrences(_)
FirstOccurrences(calls) ==
    IF calls = <<>> THEN <<>>
    ELSE LET front == FirstOccurrences(SubSeq(calls, 1, Len(calls) - 1))
             last == calls[Len(calls)]
         IN IF last \in Range(front) THEN front ELSE Append(front, last)

\* C2: status changes only from active to completed or from active to
\* failed; once the status is completed or failed no later operation
\* changes it (fail() after complete() leaves it completed, complete() after
\* fail() leaves it failed).
C2_TerminalStatusNeverChanges ==
    [][Session.status # "active" => Session'.status = Session.status]_vars

\* C3: in every state reachable by add_proposal, add_error, complete and
\* fail calls, ended_at is set if and only if status is not active.
C3_EndedAtIffNotActive ==
    ~IsNone(Session.ended_at) <=> Session.status # "active"

C3_Witness ==
    /\ Session.status = "failed"
    /\ ~IsNone(Session.ended_at)
    /\ Len(Session.errors) > 0
    /\ Len(Session.proposals_created) > 0

\* C4: proposals_created holds each distinct proposal id exactly once, in
\* order of first insertion, however often an id is repeated, and
\* add_proposal with an id already present leaves the session unchanged.
C4_ProposalsDeduplicated ==
    [][/\ Session'.proposals_created = FirstOccurrences(proposalCalls')
       /\ Cardinality(Range(Session'.proposals_created))
            = Len(Session'.proposals_created)
       /\ (/\ proposalCalls' # proposalCalls
           /\ proposalCalls'[Len(proposalCalls')]
                \in Range(Session.proposals_created))
          => current_session' = current_session]_vars

C4_Witness ==
    /\ proposalCalls = <<"prop_1", "prop_2", "prop_1">>
    /\ Session.proposals_created = <<"prop_1", "prop_2">>

\* ------------------------------------------------------------------------
\* Properties of wait_for_approval
\* ------------------------------------------------------------------------
\* C5: wait_for_approval polls repeatedly; it returns true if the proposal
\* reports approved within the timeout window, false if it reports
\* rejected, and raises the timeout error if the proposal is still pending
\* when the timeout has elapsed; statuses pending, pending, approved with
\* poll_interval = 1 and timeout = 10 give true after at least 2 polls.
C5_WaitForApprovalOutcome ==
    /\ wpc = "polling" => elapsed < timeout
    /\ wpc \in {"polling", "sleeping"} =>
         \A k \in 1..Len(polled) : polled[k] = "pending"
    /\ wpc = "done" =>
         /\ \A k \in 1..(Len(polled) - 1) : polled[k] = "pending"
         /\ wresult \in {"true", "false", "timeout", "error"}
         /\ wresult = "true" =>
              /\ polled # <<>>
              /\ polled[Len(polled)] = "approved"
              /\ (Len(polled) - 1) * poll_interval < timeout
         /\ wresult = "false" =>
              /\ polled # <<>>
              /\ polled[Len(polled)] = "rejected"
              /\ (Len(polled) - 1) * poll_interval < timeout
         /\ wresult = "timeout" =>
              /\ \A k \in 1..Len(polled) : polled[k] = "pending"
              /\ elapsed >= timeout
              /\ elapsed = Len(polled) * poll_interval
         /\ (polled # <<>> /\ polled[Len(polled)] = "approved")
              => wresult = "true"
         /\ (polled # <<>> /\ polled[Len(polled)] = "rejected")
              => wresult = "false"
         /\ (/\ timeout = 10
             /\ poll_interval = 1
             /\ polled = <<"pending", "pending", "approved">>)
              => (wresult = "true" /\ Len(polled) >= 2)

C5_Witness ==
    /\ wpc = "done"
    /\ timeout = 10
    /\ poll_interval = 1
    /\ polled = <<"pending", "pending", "approved">>
    /\ wresult = "true"

\* ------------------------------------------------------------------------
\* Properties of delegate() and reason()
\* ------------------------------------------------------------------------
Registered(name) == \E k \in 1..Len(subagents) : subagents[k].name = name

\* a step on which a delegate() or reason() call starts
CallStarts == dpc \in {"idle", "done"} /\ (dcall' # dcall \/ dpc' # dpc)

\* a step on which the provider call of a delegate() comes back
DelegationEnds ==
    dpc = "reasoning" /\ dpc' = "done" /\ dcall.caller = "delegate"

\* the calls delegate() owes its hooks for a result
ExpectedHookCalls(result) ==
    [k \in 1..Len(delegation_hooks) |->
        HookCall(delegation_hooks[k], dcall.subagent_name, dcall.task,
                 result)]

\* C6: delegate() with a name that is not registered fails at once with
\* the unknown-subagent error: no reasoning call, no hook call, and the
\* session is left unchanged.
C6_UnknownSubagentFailsWithoutEffect ==
    [][(/\ CallStarts
        /\ dcall'.caller = "delegate"
        /\ ~Registered(dcall'.subagent_name))
       => (/\ dpc' = "done"
           /\ dresult' = Raised(UnknownSubagentError)
           /\ reasonCalls' = <<>>
           /\ hookLog' = <<>>
           /\ providerOutcome' = NoResult
           /\ current_session' = current_session)]_vars

C6_Witness ==
    /\ dpc = "done"
    /\ dcall.caller = "delegate"
    /\ dcall.subagent_name = UnregisteredName
    /\ dresult = Raised(UnknownSubagentError)
    /\ subagents # <<>>
    /\ delegation_hooks # <<>>
    /\ ~IsNone(current_session)

\* C7: for a subagent declaring a tool set S and a caller supplying tools
\* T, delegate passes to reason() exactly the tools of T whose name is in
\* S, in T's order; with tools = None, T is passed through unchanged.
C7_ToolsRestrictedToDeclaredSet ==
    (dpc = "reasoning" /\ dcall.caller = "delegate" /\ ~IsNone(dcall.tools))
    => LET S == get_subagent(subagents, dcall.subagent_name)[1].tools
           T == dcall.tools[1]
           InS(t) == t.name \in Range(S[1])
       IN reasonCalls[1].tools =
            IF IsNone(S) THEN Some(T) ELSE Some(SelectSeq(T, InS))

\* C8 as stated: after the reasoning call of a delegation completes,
\* whether it succeeded or failed, every registered hook is invoked exactly
\* once, in registration order, before delegate returns or propagates.
C8_HooksRunAfterSuccessOrFailure ==
    [][DelegationEnds
       => (/\ Len(hookLog') = Len(delegation_hooks)
           /\ \A k \in 1..Len(hookLog') :
                /\ hookLog'[k].hook = delegation_hooks[k]
                /\ hookLog'[k].subagent_name = dcall.subagent_name
                /\ hookLog'[k].task = dcall.task)]_vars

\* C8 amended: after a reasoning call that succeeded, every registered
\* hook is invoked exactly once, in registration order, with
\* (subagent_name, task, result), before delegate returns the result; after
\* a reasoning call that failed no hook is invoked and the failure
\* propagates.
C8_HooksRunAfterSuccessOnly ==
    [][DelegationEnds
       => IF providerOutcome'.kind = "returned"
          THEN /\ hookLog' = ExpectedHookCalls(providerOutcome'.value)
               /\ dresult'.kind = "returned"
          ELSE /\ hookLog' = <<>>
               /\ dresult' = providerOutcome'
               /\ dresult'.kind = "raised"]_vars

C8_Witness ==
    /\ dpc = "done"
    /\ dcall.caller = "delegate"
    /\ providerOutcome.kind = "returned"
    /\ delegation_hooks = <<"hook_returns", "hook_returns">>
    /\ Len(hookLog) = 2
    /\ dresult.kind = "returned"

\* C9: if a delegation hook raises an Exception, delegate still invokes
\* every later-registered hook and returns the reasoning call's result
\* unchanged; a hook's exception never reaches the caller of delegate.
C9_HookFailureIsIsolated ==
    [][(DelegationEnds /\ providerOutcome'.kind = "returned")
       => (/\ dresult' = providerOutcome'
           /\ dresult'.value = Response(reasonCalls[1].request)
           /\ \A k \in 1..Len(delegation_hooks) :
                /\ k <= Len(hookLog')
                /\ hookLog'[k].hook = delegation_hooks[k])]_vars

C9_Witness ==
    /\ dpc = "done"
    /\ dcall.caller = "delegate"
    /\ delegation_hooks = <<"hook_raises", "hook_returns">>
    /\ Len(hookLog) = 2
    /\ hookLog[2].hook = "hook_returns"
    /\ dresult.kind = "returned"

\* C10: when the provider call inside reason() fails and the agent has a
\* session, exactly one error record with context "reasoning" is appended
\* to it before the same error is propagated; reason() never suppresses the
\* error, and with no session the error still propagates.
C10_ReasoningErrorRecordedAndRaised ==
    [][(dpc = "reasoning" /\ dpc' = "done")
       => IF providerOutcome'.kind = "raised"
          THEN /\ dresult' = providerOutcome'
               /\ IF IsNone(current_session)
                  THEN IsNone(current_session')
                  ELSE current_session'[1] =
                         [current_session[1] EXCEPT !.errors =
                            Append(@,
                              [error |-> providerOutcome'.value.msg,
                               type |-> providerOutcome'.value.type,
                               context |-> Some("reasoning"),
                               timestamp |-> now])]
          ELSE current_session' = current_session]_vars

C10_Witness ==
    /\ dpc = "done"
    /\ dcall.caller = "reason"
    /\ dresult.kind = "raised"
    /\ ~IsNone(current_session)
    /\ Len(Session.errors) = 1
    /\ Session.errors[1].context = Some("reasoning")

\* ------------------------------------------------------------------------
\* Properties of autonomous_loop
\* ------------------------------------------------------------------------
\* C1: for every task list and every pattern of execute returning or
\* raising, autonomous_loop calls execute exactly once per task, in input
\* order, and returns exactly one result per task, the i-th being execute's
\* return value for the i-th task or an error marker if it raised; a failed
\* task never prevents a later task from being executed.
C1_OneResultPerTaskInOrder ==
    lpc \in {"running", "done"} =>
      /\ idx <= Len(tasks)
      /\ lpc = "done" => idx = Len(tasks)
      /\ Len(execLog) = idx
      /\ Len(results) = idx
      /\ \A k \in 1..idx :
           /\ execLog[k].task = tasks[k]
           /\ IF execLog[k].result.kind = "returned"
              THEN /\ results[k] = execLog[k].result.value
                   /\ results[k].response.content = tasks[k]
              ELSE results[k] = [error |-> execLog[k].result.value.msg]

C1_Witness ==
    /\ lpc = "done"
    /\ tasks = <<"task_b", "task_a">>
    /\ Len(results) = 2
    /\ execLog[1].result.kind = "raised"
    /\ execLog[2].result.kind = "returned"

\* C11: whenever autonomous_loop has returned, the agent's session has
\* status completed and ended_at set, for every task list (the empty list
\* included) and every combination of per-task successes and failures.
C11_LoopEndsWithCompletedSession ==
    lpc = "done" =>
      /\ ~IsNone(current_session)
      /\ Session.status = "completed"
      /\ ~IsNone(Session.ended_at)

C11_Witness ==
    /\ lpc = "done"
    /\ Len(tasks) = 2
    /\ execLog[1].result.kind = "returned"
    /\ execLog[2].result.kind = "raised"
    /\ Session.status = "completed"

\* one iteration of the loop body has run for the task at position idx'
LoopIterates ==
    /\ lpc = "running"
    /\ idx' = idx + 1

\* C12: during autonomous_loop the session's tasks_completed counter is
\* incremented once for each task whose execute returns normally and is not
\* incremented for a task whose execute raises.
C12_TasksCompletedCountsSuccesses ==
    [][LoopIterates =>
         Session'.tasks_completed =
           Session.tasks_completed
           + (IF execLog'[idx'].result.kind = "returned" THEN 1 ELSE 0)]_vars

\* "task_{k}" for the k-th task of the list (k counted from 1)
TaskLabel(k) ==
    CASE k = 1 -> "task_1"
      [] k = 2 -> "task_2"
      [] k = 3 -> "task_3"
      [] OTHER -> "task_n"

\* C13: when execute raises for the i-th task inside autonomous_loop, the
\* exception is caught (the loop goes on or returns normally), an error
\* record with context "task_{i}" and the exception's message is appended to
\* the session's error list, and the i-th entry of results is an error
\* marker carrying the error message.
C13_TaskFailureRecordedWithIndex ==
    [][(LoopIterates /\ execLog'[idx'].result.kind = "raised") =>
         LET e == execLog'[idx'].result.value
             errs == Session'.errors
         IN /\ lpc' \in {"running", "done"}
            /\ Len(errs) > Len(Session.errors)
            /\ SubSeq(errs, 1, Len(Session.errors)) = Session.errors
            /\ errs[Len(errs)].context = Some(TaskLabel(idx'))
            /\ errs[Len(errs)].error = e.msg
            /\ results'[idx'] = [error |-> e.msg]]_vars

C13_Witness ==
    /\ lpc = "running"
    /\ idx = 1
    /\ execLog[1].result.kind = "raised"
    /\ Len(Session.errors) >= 1
    /\ Session.errors[Len(Session.errors)].context = Some("task_1")
    /\ results[1] = [error |-> execLog[1].result.value.msg]

\* ------------------------------------------------------------------------
\* Properties of run_continuous
\* ------------------------------------------------------------------------
\* the positions of the current iteration's history at which op was awaited
PositionsOf(op) == {k \in 1..Len(callLog) : callLog[k].op = op}

\* a status update that sets a task to in_progress
IsInProgressUpdate(c) ==
    /\ c.op = "update_task_status"
    /\ c.args.status = "in_progress"

\* how many of the positions in S are at or before k
RankIn(S, k) == Cardinality({m \in S : m <= k})

ProviderCallRaises ==
    /\ cpc \in {"fetch", "update"}
    /\ cpc' # "fetch"
    /\ callLog' # callLog
    /\ callLog'[Len(callLog')].raised

\* C15: an exception raised by get_pending_tasks or update_task_status
\* never propagates out of run_continuous and never ends the loop: control
\* stays inside the iteration (a raising "completed" update is followed by
\* the "failed" update) or goes to the sleep of check_interval, after which
\* the iteration counter advances and the next iteration runs unless
\* max_iterations is reached.
C15_ProviderFailureDoesNotEndLoop ==
    [][/\ ProviderCallRaises =>
            /\ cpc' \in {"sleep", "update"}
            /\ cpc' = "update" => next_update'.status = "failed"
            /\ cresult' = NoResult
       /\ cpc = "sleep" /\ cpc' # "sleep" =>
            /\ sleeps' = Append(sleeps, check_interval)
            /\ iteration' = iteration + 1
            /\ cpc' = IF IsNone(max_iterations)
                         \/ iteration' < max_iterations[1]
                      THEN "fetch" ELSE "done"
       /\ ~IsNone(task_provider) => cresult'.kind # "raised"]_vars

C15_Witness ==
    /\ cpc = "fetch"
    /\ iteration = 1
    /\ sleeps = <<60>>
    /\ Len(callLog) = 2
    /\ callLog[2].op = "update_task_status"
    /\ callLog[2].raised

\* C16: given max_iterations = k, run_continuous that has returned has made
\* exactly k iterations: k calls to get_pending_tasks and k sleeps, whatever
\* failed inside them; with k = 0 it returns without fetching.  It makes
\* never more than k fetches, and a call that has started returns.
C16_ExactlyMaxIterations ==
    /\ [](~IsNone(max_iterations) =>
            /\ fetches <= max_iterations[1]
            /\ cpc = "done" =>
                 /\ cresult = Returned(None)
                 /\ fetches = max_iterations[1]
                 /\ iteration = max_iterations[1]
                 /\ Len(sleeps) = max_iterations[1])
    /\ (cpc = "fetch" /\ ~IsNone(max_iterations)) ~> (cpc = "done")

C16_Witness ==
    /\ cpc = "done"
    /\ max_iterations = Some(2)
    /\ fetches = 2
    /\ callLog[1].raised

\* C17: run_continuous on an agent with no TaskProvider fails at once with
\* the configuration error: no fetch, no execute, no status update and no
\* sleep happens, then or later, and the session is neither created nor
\* changed.
C17_NoProviderFailsFast ==
    [][/\ (cpc = "idle" /\ cpc' # "idle" /\ IsNone(task_provider)) =>
            /\ cpc' = "raised"
            /\ cresult' = Raised(ConfigurationError)
            /\ current_session' = current_session
            /\ fetches' = 0
            /\ sleeps' = <<>>
            /\ callLog' = <<>>
       /\ cpc = "raised" =>
            UNCHANGED <<current_session, next_uuid, continuousVars>>]_vars

C17_Witness ==
    /\ cpc = "raised"
    /\ IsNone(task_provider)
    /\ cresult = Raised(ConfigurationError)
    /\ IsNone(current_session)
    /\ fetches = 0

\* ------------------------------------------------------------------------
\* Properties of the request a delegation sends
\* ------------------------------------------------------------------------
\* the definition of the subagent the delegation in progress goes to
Delegated == get_subagent(subagents, dcall.subagent_name)[1]

\* a delegation to a registered subagent has reached the reasoning call
DelegationReasons ==
    /\ dpc = "reasoning"
    /\ dcall.caller = "delegate"

\* C18: a subagent that declares an empty, non-null tool set receives no
\* tools at all when delegated to, whatever tools the caller supplies; a
\* subagent with tools = None receives all caller-supplied tools.
C18_EmptyToolSetReceivesNoTools ==
    DelegationReasons =>
      /\ Delegated.tools = Some(<<>>) =>
           /\ ~TruthyList(reasonCalls[1].tools)
           /\ reasonCalls[1].request.tools = None
      /\ IsNone(Delegated.tools) => reasonCalls[1].tools = dcall.tools

\* C19: when the subagent definition has a model set, the reasoning request
\* a delegation issues uses the subagent's model instead of the parent
\* agent's; when the subagent's model is None the parent's model is used.
C19_SubagentModelOverridesParent ==
    DelegationReasons =>
      reasonCalls[1].request.model =
        IF IsNone(Delegated.model) THEN ParentModel ELSE Delegated.model[1]

\* ------------------------------------------------------------------------
\* Properties of get_delegation_prompt
\* ------------------------------------------------------------------------
\* the names a rendered prompt lists: the pieces that follow a heading mark
RECURSIVE ListedNames(_)
ListedNames(p) ==
    IF Len(p) < 2 THEN <<>>
    ELSE IF p[1] = "\n### "
         THEN <<p[2]>> \o ListedNames(SubSeq(p, 3, Len(p)))
         ELSE ListedNames(Tail(p))

\* the names of the definitions registered so far, in call order
RegisteredNames == [k \in 1..Len(registerLog) |-> registerLog[k].name]

\* the names listed are the names registered, each once, in the order in
\* which they were first registered
ListsRegisteredNames(p) ==
    /\ ListedNames(p) = FirstOccurrences(RegisteredNames)
    /\ \A n \in Range(RegisteredNames) :
         Cardinality({k \in 1..Len(p) : p[k] = n}) = 1

\* C20: get_delegation_prompt() returns the empty string when no subagent
\* is registered; after N registrations with distinct names the rendered
\* prompt lists all N names exactly once each, in registration order.
C20_PromptListsNamesInOrder ==
    [][prompt' # prompt =>
         IF registerLog = <<>>
         THEN prompt' = Some(<<>>)
         ELSE /\ prompt' # Some(<<>>)
              /\ ListsRegisteredNames(prompt'[1])
              /\ Cardinality(Range(RegisteredNames)) = Len(registerLog)
                   => ListedNames(prompt'[1]) = RegisteredNames]_vars

C20_Witness ==
    /\ Len(registerLog) = 3
    /\ Cardinality(Range(RegisteredNames)) = 3
    /\ ~IsNone(prompt)
    /\ ListedNames(prompt[1]) = <<"reviewer", "writer", "analyst">>

\* ------------------------------------------------------------------------
\* Properties of should_auto_approve
\* ------------------------------------------------------------------------
\* C21: should_auto_approve(proposal, autoApprove, threshold) returns true
\* if and only if autoApprove is true and proposal.confidence >= threshold
\* (a confidence equal to the threshold is approved); with autoApprove false
\* it returns false for every confidence.
C21_AutoApproveIffEnabledAndConfident ==
    ~IsNone(approved) =>
      /\ approved[1] \in BOOLEAN
      /\ approved[1] <=>
           (auto_approve /\ ~(proposal.confidence < confidence_threshold))
      /\ ~auto_approve => ~approved[1]
      /\ (auto_approve /\ proposal.confidence = confidence_threshold)
           => approved[1]

C21_Witness ==
    /\ approved = Some(TRUE)
    /\ auto_approve
    /\ proposal.confidence = 8
    /\ confidence_threshold = 8

\* ------------------------------------------------------------------------
\* Properties of execute() called directly
\* ------------------------------------------------------------------------
\* C22: on an agent constructed without a session id the first execute()
\* call creates the session and every later execute() call reuses it: all
\* execute calls observe the same session id, which is the id of the
\* agent's session, and at most one session is ever created.
C22_ExecuteReusesSession ==
    /\ IsNone(current_session) <=> execLog = <<>>
    /\ execLog = <<>> => next_uuid = 2
    /\ execLog # <<>> =>
         /\ next_uuid = 3
         /\ Session.id = 2
         /\ \A k \in 1..Len(execLog) : execLog[k].session_id = Session.id
         /\ \A k \in 1..Len(execLog) :
              execLog[k].result.kind = "returned" =>
                execLog[k].result.value.session_id = Session.id

C22_Witness ==
    /\ Len(execLog) = 3
    /\ execLog[1].result.kind = "raised"
    /\ execLog[2].result.kind = "returned"
    /\ execLog[3].result.kind = "returned"
    /\ Session.id = 2

\* an execute() call made directly by the caller has come back
ExecuteComesBack == Len(execLog') = Len(execLog) + 1

\* C23: each successful execute() call made directly by a caller increases
\* the session's tasks_completed counter by exactly 1.
C23_ExecuteCountsCompletedTask ==
    [][(ExecuteComesBack /\ execLog'[Len(execLog')].result.kind = "returned")
         => Session'.tasks_completed =
              (IF IsNone(current_session) THEN 0
               ELSE Session.tasks_completed) + 1]_vars

\* ------------------------------------------------------------------------
\* Further properties of AgentSession
\* ------------------------------------------------------------------------
\* the error list after a step is the list before it, or that list with one
\* record appended
ErrorsGrowByAtMostOne ==
    \/ Session'.errors = Session.errors
    \/ /\ Len(Session'.errors) = Len(Session.errors) + 1
       /\ SubSeq(Session'.errors, 1, Len(Session.errors)) = Session.errors

\* a step that changes the session but not its status, ended_at or
\* proposals: an add_error call
AddErrorStep ==
    /\ current_session' # current_session
    /\ Session'.status = Session.status
    /\ Session'.ended_at = Session.ended_at
    /\ Session'.proposals_created = Session.proposals_created

\* C24: add_error always appends exactly one new record, holding message,
\* error kind, context and timestamp, at the end of the error list; no
\* session operation (add_proposal, add_error, complete, fail) removes or
\* changes an existing record, so the list only grows and keeps its order.
C24_ErrorsAppendOnly ==
    [][/\ ErrorsGrowByAtMostOne
       /\ AddErrorStep =>
            LET rec == Session'.errors[Len(Session'.errors)]
            IN /\ Len(Session'.errors) = Len(Session.errors) + 1
               /\ DOMAIN rec = {"error", "type", "context", "timestamp"}
               /\ [type |-> rec.type, msg |-> rec.error] \in Exceptions
               /\ rec.context \in Contexts
               /\ rec.timestamp = now
               /\ Session'.tasks_completed = Session.tasks_completed]_vars

C24_Witness ==
    /\ Len(Session.errors) = 2
    /\ Session.errors[1].timestamp < Session.errors[2].timestamp
    /\ Session.errors[1].context # Session.errors[2].context
    /\ Session.status = "failed"

\* C25: calling complete() on a session that is already completed is a
\* no-op: every field, in particular status and ended_at, keeps the value
\* set by the first complete() call.
C25_CompleteTwiceIsNoOp ==
    [][(/\ Session.status = "completed"
        /\ Session'.status = "completed"
        /\ Session'.errors = Session.errors
        /\ Session'.proposals_created = Session.proposals_created)
       => current_session' = current_session]_vars

\* ------------------------------------------------------------------------
\* Further properties of autonomous_loop
\* ------------------------------------------------------------------------
\* C26: once the agent's session is terminal (for example after
\* autonomous_loop has completed it), a later call on the same agent uses a
\* new session instance: the terminal session, known by its id, never
\* changes again.
C26_TerminalSessionNotReused ==
    [][(/\ ~IsNone(current_session)
        /\ Session.status # "active"
        /\ Session'.id = Session.id)
       => current_session' = current_session]_vars

\* C30: in autonomous_loop each task whose execute raised adds exactly one
\* error record to the session and a task whose execute returned adds none,
\* also when the failure came from a reason() call made inside execute; so
\* the records added during the loop are as many as the failed tasks.
C30_OneErrorRecordPerFailedTask ==
    [][LoopIterates =>
         Len(Session'.errors) =
           Len(Session.errors)
           + (IF execLog'[idx'].result.kind = "raised" THEN 1 ELSE 0)]_vars

\* ------------------------------------------------------------------------
\* Further properties of run_continuous
\* ------------------------------------------------------------------------
\* a status update of the current iteration with the given status
IsUpdateTo(c, status) ==
    /\ c.op = "update_task_status"
    /\ c.args.status = status

\* C27: in run_continuous a task is reported with status failed only if
\* its execute call raised: the call before a "failed" update is the
\* execute of that task and it raised, also when the "completed" update
\* itself raises.
C27_FailedOnlyIfExecuteRaised ==
    \A k \in 1..Len(callLog) :
      IsUpdateTo(callLog[k], "failed") =>
        /\ k > 1
        /\ callLog[k - 1].op = "execute"
        /\ callLog[k - 1].raised

\* C28: when an iteration of run_continuous has fetched tasks and reached
\* its sleep, none of the fetched tasks was skipped, and every task that was
\* set to in_progress was later set to completed or failed, even when a
\* status update raised.
C28_InProgressAlwaysResolved ==
    (/\ cpc = "sleep"
     /\ callLog # <<>>
     /\ ~callLog[1].raised)
    => /\ \A j \in 1..Len(pending) :
            \E k \in 1..Len(callLog) :
              /\ IsUpdateTo(callLog[k], "in_progress")
              /\ callLog[k].args.task_id = pending[j].id
       /\ \A k \in 1..Len(callLog) :
            (IsUpdateTo(callLog[k], "in_progress") /\ ~callLog[k].raised)
            => \E m \in (k + 1)..Len(callLog) :
                 /\ callLog[m].op = "update_task_status"
                 /\ callLog[m].args.task_id = callLog[k].args.task_id
                 /\ callLog[m].args.status \in {"completed", "failed"}
                 /\ ~callLog[m].raised

\* ------------------------------------------------------------------------
\* Further properties of wait_for_approval
\* ------------------------------------------------------------------------
\* C29: wait_for_approval terminates for every timeout >= 0 and every
\* poll interval >= 0, the interval 0 included: a call that polls comes to
\* an end, and with a positive interval the polls made are at most
\* ceil(timeout / poll_interval).
C29_WaitForApprovalTerminates ==
    /\ []((wpc \in {"polling", "sleeping"} /\ poll_interval > 0)
            => (Len(polled) - 1) * poll_interval < timeout)
    /\ (wpc = "polling") ~> (wpc = "done")

====
